---- MODULE Spec2Model ----
(***************************************************************************)
(* SteganoTool: the LSB codec of client/src/lib/steganography.ts.         *)
(*                                                                         *)
(* A pixel buffer is the ImageData.data array: width*height*4 samples of  *)
(* 0..255 in R,G,B,A order.  Strings are sequences of character codes;    *)
(* binary strings ('0'/'1' characters) are sequences of the digits 0, 1.  *)
(* JavaScript indices are 0-based, TLA+ sequences 1-based: data[i] of the *)
(* source is data[i + 1] here.                                             *)
(*                                                                         *)
(* Specifications: Spec (load, capacity, one encode, decodes on small      *)
(* images), SpecReencode (encodes in a row on one image), SpecProgress     *)
(* (the pixel loops pass by pass on large images, for onProgress),         *)
(* SpecDropzone (the FileDropzone component of the page) and SpecHash      *)
(* (simpleHash and the mask bytes).                                        *)
(***************************************************************************)
EXTENDS Integers, Sequences, FiniteSets, TLC

VARIABLES
    width,          \* canvas.width of the loaded image
    height,         \* canvas.height of the loaded image
    data,           \* imageData.data, the pixel buffer
    before,         \* the pixel buffer as it was when the last encodeMessage began
    op,             \* the last operation: "load", "capacity", "encode", "decode"
    message,        \* the message argument of the last encodeMessage
    password,       \* the password argument of the last encodeMessage (<<>>: none)
    encoded,        \* how the last encodeMessage ended: "none", "ok", "CapacityExceeded"
    capacity,       \* the last value calculateCapacity returned
    decodePassword, \* the password argument of the last decodeMessage
    decoded,        \* what the last decodeMessage returned
    extractedBits,  \* the payload bits the last decodeMessage read
    payloadReads,   \* the sample indices (0-based) the last decodeMessage read as payload, in order
    written,        \* binaryIndex when the write loop of the last encodeMessage ended
    reported,       \* the values the last call passed to onProgress, in order
    encodes,        \* the encodeMessage calls made on the loaded image
    scan,           \* a call followed pass by pass of its pixel loop: its counters
    isDragOver,     \* FileDropzone: the isDragOver state of each dropzone of the page
    file,           \* FileDropzone: the file prop of each dropzone (<<>>: null)
    hashStr,        \* the string simpleHash is applied to
    hashKey,        \* the key simpleHash returned for hashStr (<<>>: none yet)
    hashMask        \* the mask byte last derived from hashKey, with its index (<<>>: none yet)

\* the codec's state but for reported
codecVars == <<width, height, data, before, op, message, password, encoded, capacity,
               decodePassword, decoded, extractedBits, payloadReads, written, encodes>>

dropzoneVars == <<isDragOver, file>>

hashVars == <<hashStr, hashKey, hashMask>>

vars == <<codecVars, reported, scan, dropzoneVars, hashVars>>

----------------------------------------------------------------------------
(* Bounds of the model and the inputs drawn from them.                     *)

MaxWidth == 8
MaxMsgLen == 2
\* encodeMessage calls in a row on one image, each on the result of the one before
MaxEncodes == 2
\* the length of the strings simpleHash is applied to
MaxHashLen == 7

Heights == {0, 1, 5}

\* 'A', '~' (printable ASCII)
Alphabet == {65, 126}

\* no password, "a", "secret" (whose rolling hash is negative before Math.abs),
\* and "!b", whose key 1121 agrees with the key 97 of "a" modulo 256
Passwords == {<< >>, <<97>>, <<115, 101, 99, 114, 101, 116>>, <<33, 98>>}

Messages == UNION {[1..n -> Alphabet] : n \in 0..MaxMsgLen}

Fills == {"zero", "full", "ramp", "len1", "len2", "maxlen", "overmax"}

\* the messages and passwords of repeated encodes: "A", "~~", "A~A"; none, "a"
ReMessages == {<<65>>, <<126, 126>>, <<65, 126, 65>>}
RePasswords == {<< >>, <<97>>}

----------------------------------------------------------------------------
(* JavaScript number and string primitives the codec uses.                 *)

RECURSIVE BitAnd(_, _)
BitAnd(a, b) ==
    IF a = 0 \/ b = 0 THEN 0
    ELSE (IF a % 2 = 1 /\ b % 2 = 1 THEN 1 ELSE 0) + 2 * BitAnd(a \div 2, b \div 2)

RECURSIVE BitOr(_, _)
BitOr(a, b) ==
    IF a = 0 THEN b
    ELSE IF b = 0 THEN a
    ELSE (IF a % 2 = 1 \/ b % 2 = 1 THEN 1 ELSE 0) + 2 * BitOr(a \div 2, b \div 2)

RECURSIVE BitXor(_, _)
BitXor(a, b) ==
    IF a = 0 THEN b
    ELSE IF b = 0 THEN a
    ELSE (((a % 2) + (b % 2)) % 2) + 2 * BitXor(a \div 2, b \div 2)

\* n.toString(2) for an integer n >= 0
RECURSIVE toString2(_)
toString2(n) ==
    IF n < 2 THEN <<n>> ELSE Append(toString2(n \div 2), n % 2)

\* s.padStart(len, '0')
padStart(s, len) ==
    IF Len(s) >= len THEN s
    ELSE [i \in 1..len |-> IF i <= len - Len(s) THEN 0 ELSE s[i - (len - Len(s))]]

(* parseInt(s, 2) of a string of binary digits.  The value can reach       *)
(* 2^32 - 1, so it is kept as two 16-bit halves: value = hi * 65536 + lo.  *)
(* parseInt('') is NaN.                                                     *)
RECURSIVE parseDigits(_, _, _)
parseDigits(s, hi, lo) ==
    IF s = << >> THEN [nan |-> FALSE, hi |-> hi, lo |-> lo]
    ELSE LET l == lo * 2 + Head(s)
         IN  parseDigits(Tail(s), (hi * 2) + (l \div 65536), l % 65536)

parseInt2(s) ==
    IF s = << >> THEN [nan |-> TRUE, hi |-> 0, lo |-> 0] ELSE parseDigits(s, 0, 0)

\* v <= n and v > n for a parseInt2 result v and an integer n >= 0; NaN compares false
NumLeq(v, n) ==
    ~v.nan /\ (v.hi < n \div 65536 \/ (v.hi = n \div 65536 /\ v.lo <= n % 65536))

NumGt(v, n) ==
    ~v.nan /\ (v.hi > n \div 65536 \/ (v.hi = n \div 65536 /\ v.lo > n % 65536))

----------------------------------------------------------------------------
(* simpleHash: 32-bit arithmetic on halves, so that no intermediate value  *)
(* leaves the range of the model checker's integers.                       *)

Hi16(h) == (h \div 65536) % 65536
Lo16(h) == h % 65536

\* the signed 32-bit integer with the given halves (ToInt32)
Int32(hi, lo) ==
    (IF hi >= 32768 THEN hi - 65536 ELSE hi) * 65536 + lo

\* hash << 5
Shl5(h) ==
    LET lo == Lo16(h) * 32
        hi == (Hi16(h) * 32) + (lo \div 65536)
    IN  Int32(hi % 65536, lo % 65536)

\* hash = ((hash << 5) - hash) + char; hash = hash & hash
HashStep(h, char) ==
    LET s  == Shl5(h)
        lo == (Lo16(s) - Lo16(h)) + char
        hi == (Hi16(s) - Hi16(h)) + (lo \div 65536)
    IN  Int32(hi % 65536, lo % 65536)

RECURSIVE HashLoop(_, _, _)
HashLoop(str, i, hash) ==
    IF i < Len(str) THEN HashLoop(str, i + 1, HashStep(hash, str[i + 1])) ELSE hash

\* the hash read as an unsigned 32-bit number in place of Math.abs
MathAbs_unsigned(h) == [hi |-> Hi16(h), lo |-> Lo16(h)]

\* Math.abs(hash), as halves: Math.abs(-2^31) = 2^31 is no signed 32-bit integer
MathAbs(h) ==
    IF h >= 0 THEN [hi |-> Hi16(h), lo |-> Lo16(h)]
    ELSE IF h = -2147483647 - 1 THEN [hi |-> 32768, lo |-> 0]
    ELSE [hi |-> Hi16(-h), lo |-> Lo16(-h)]

simpleHash(str) == MathAbs(HashLoop(str, 0, 0))

\* a mask taken from the second byte of the key
MaskByte_secondByte(key, i) == ((key.lo \div 256) + i) % 256

\* (key + i) % 256; 65536 is a multiple of 256, so only key.lo matters
MaskByte(key, i) == (key.lo + i) % 256

\* message.split('').map((char, i) => String.fromCharCode(char.charCodeAt(0) ^ ((key + i) % 256))).join('')
XorWithKey(str, key) ==
    [j \in 1..Len(str) |-> BitXor(str[j], MaskByte(key, j - 1))]

----------------------------------------------------------------------------
(* stringToBinary, binaryToString, calculateCapacity.                      *)

\* stringToBinary without padStart(8, '0'): a character takes as many bits as it has digits
RECURSIVE stringToBinary_noPad(_)
stringToBinary_noPad(str) ==
    IF str = << >> THEN << >>
    ELSE toString2(Head(str)) \o stringToBinary_noPad(Tail(str))

RECURSIVE stringToBinary(_)
stringToBinary(str) ==
    IF str = << >> THEN << >>
    ELSE padStart(toString2(Head(str)), 8) \o stringToBinary(Tail(str))

\* binaryToString with a short last group filled up with zeros on its right
RECURSIVE binaryToString_padRight(_)
binaryToString_padRight(binary) ==
    IF binary = << >> THEN << >>
    ELSE LET n     == IF Len(binary) < 8 THEN Len(binary) ELSE 8
             chunk == SubSeq(binary, 1, n) \o [k \in 1..(8 - n) |-> 0]
         IN  <<parseInt2(chunk).lo>>
             \o binaryToString_padRight(SubSeq(binary, n + 1, Len(binary)))

\* binaryToString that converts whole groups of 8 only and drops a short last group
RECURSIVE binaryToString_wholeGroups(_)
binaryToString_wholeGroups(binary) ==
    IF Len(binary) < 8 THEN << >>
    ELSE <<parseInt2(SubSeq(binary, 1, 8)).lo>>
         \o binaryToString_wholeGroups(SubSeq(binary, 9, Len(binary)))

\* binary.match(/.{1,8}/g): groups of 8, the last one possibly shorter
RECURSIVE binaryToString(_)
binaryToString(binary) ==
    IF binary = << >> THEN << >>
    ELSE LET n     == IF Len(binary) < 8 THEN Len(binary) ELSE 8
             chunk == SubSeq(binary, 1, n)
         IN  <<parseInt2(chunk).lo>> \o binaryToString(SubSeq(binary, n + 1, Len(binary)))

metadataBits == 64

\* calculateCapacity without the bits reserved for the header and the delimiter
calculateCapacity_noReserve(w, h) == (w * h * 3) \div 8

calculateCapacity(w, h) ==
    LET totalBits     == w * h * 3
        availableBits == totalBits - metadataBits
    IN  availableBits \div 8

----------------------------------------------------------------------------
(* The values passed to onProgress.  A percentage is kept as the fraction  *)
(* num / den, so that the quotients of the source are exact; the page      *)
(* always passes a callback, so onProgress is present.                     *)

Percent(n) == [num |-> n, den |-> 1]

\* the percentage passed on without the limit of 95
Min95_none(p) == p

\* Math.min(95, p)
Min95(p) == IF p.num > 95 * p.den THEN Percent(95) ELSE p

\* if (onProgress && i % 12000 === 0)
reportEvery == 12000

\* Math.min(95, (i / 4) / totalPixels * 100)
encodeProgress(i, totalPixels) ==
    Min95([num |-> (i \div 4) * 100, den |-> totalPixels])

\* Math.min(95, extractedBits / messageBits * 100)
decodeProgress(extracted, messageBits) ==
    Min95([num |-> extracted * 100, den |-> messageBits])

----------------------------------------------------------------------------
(* encodeMessage, from the pixel buffer on (the image is already drawn).    *)

\* the inner loop running over all four samples of a pixel
IsColorChannel_alpha(channel) == channel < 4

\* the inner loop's bound: only R, G, B (offsets 0, 1, 2 of a pixel) carry a bit
IsColorChannel(channel) == channel < 3

\* writeBit with the mask 0xFC in place of 0xFE
writeBit_mask252(sample, bit) == BitOr(BitAnd(sample, 252), bit)

\* the bit or-ed in without clearing the LSB first
writeBit_orOnly(sample, bit) == BitOr(sample, bit)

\* data[pixelIndex] = (data[pixelIndex] & 0xFE) | parseInt(fullBinary[binaryIndex])
writeBit(sample, bit) == BitOr(BitAnd(sample, 254), bit)

\* for (let channel = 0; channel < 3 && binaryIndex < fullBinary.length; channel++)
RECURSIVE EncodeChannels(_, _, _, _, _)
EncodeChannels(d, fullBinary, i, channel, binaryIndex) ==
    IF ~(IsColorChannel(channel) /\ binaryIndex < Len(fullBinary))
    THEN [data |-> d, binaryIndex |-> binaryIndex]
    ELSE LET pixelIndex == i + channel
         IN  IF pixelIndex < Len(d)
             THEN EncodeChannels(
                      [d EXCEPT ![pixelIndex + 1] = writeBit(@, fullBinary[binaryIndex + 1])],
                      fullBinary, i, channel + 1, binaryIndex + 1)
             ELSE EncodeChannels(d, fullBinary, i, channel + 1, binaryIndex)

\* if (onProgress && i % 12000 === 0) onProgress(progress): the values passed
\* to onProgress by the pass at i
EncodeReport(i, totalPixels) ==
    IF i % reportEvery = 0 THEN <<encodeProgress(i, totalPixels)>> ELSE << >>

\* for (let i = 0; i < data.length && binaryIndex < fullBinary.length; i += 4):
\* the buffer, binaryIndex and the values reported when the loop ends; pass
\* is the state a pass leaves
RECURSIVE EncodePixels(_, _, _, _, _, _)
EncodePixels(d, fullBinary, i, binaryIndex, totalPixels, reports) ==
    IF ~(i < Len(d) /\ binaryIndex < Len(fullBinary))
    THEN [data |-> d, binaryIndex |-> binaryIndex, reports |-> reports]
    ELSE LET r    == EncodeChannels(d, fullBinary, i, 0, binaryIndex)
             pass == [data        |-> r.data,
                      binaryIndex |-> r.binaryIndex,
                      reports     |-> reports \o EncodeReport(i, totalPixels)]
         IN  EncodePixels(pass.data, fullBinary, i + 4, pass.binaryIndex, totalPixels,
                          pass.reports)

\* a delimiter of five null characters
delimiter_five == <<0, 0, 0, 0, 0>>

\* String.fromCharCode(0, 0, 0, 0)
delimiter == <<0, 0, 0, 0>>

\* the capacity test comparing characters against the capacity in bits
ExceedsCapacity_bits(messageWithDelimiter, cap) == Len(messageWithDelimiter) > cap * 8

\* if (messageWithDelimiter.length > capacity) throw
ExceedsCapacity(messageWithDelimiter, cap) == Len(messageWithDelimiter) > cap

\* the header counting the four delimiter characters too
lengthBinary_withDelimiter(msg) == padStart(toString2(Len(msg) + 4), 32)

\* message.length.toString(2).padStart(32, '0')
lengthBinary(msg) == padStart(toString2(Len(msg)), 32)

\* if (password) { key = simpleHash(password); fullMessage = message XOR mask }
fullMessage(msg, pwd) ==
    IF pwd # << >> THEN XorWithKey(msg, simpleHash(pwd)) ELSE msg

\* encodeMessage with the capacity test after the write loop
encodeMessage_checkLate(d, w, h, msg, pwd) ==
    LET messageWithDelimiter == fullMessage(msg, pwd) \o delimiter
        fullBinary == lengthBinary(msg) \o stringToBinary(messageWithDelimiter)
        r          == EncodePixels(d, fullBinary, 0, 0, w * h, << >>)
    IN  IF ExceedsCapacity(messageWithDelimiter, calculateCapacity(w, h))
        THEN [outcome |-> "CapacityExceeded", data |-> r.data,
              binaryIndex |-> r.binaryIndex, reports |-> r.reports]
        ELSE [outcome |-> "ok", data |-> r.data, binaryIndex |-> r.binaryIndex,
              reports |-> Append(r.reports, Percent(100))]

(* The body of encodeMessage: the outcome, the pixel buffer it leaves, the  *)
(* number of frame bits written and the progress reported.  canvas.toBlob  *)
(* delivers the PNG, after which onProgress(100) is called.                *)
encodeMessage(d, w, h, msg, pwd) ==
    LET messageWithDelimiter == fullMessage(msg, pwd) \o delimiter
        messageBinary        == stringToBinary(messageWithDelimiter)
        cap                  == calculateCapacity(w, h)
    IN  IF ExceedsCapacity(messageWithDelimiter, cap)
        THEN [outcome |-> "CapacityExceeded", data |-> d, binaryIndex |-> 0,
              reports |-> << >>]
        ELSE LET fullBinary  == lengthBinary(msg) \o messageBinary
                 totalPixels == w * h
                 r           == EncodePixels(d, fullBinary, 0, 0, totalPixels, << >>)
             IN  [outcome |-> "ok", data |-> r.data, binaryIndex |-> r.binaryIndex,
                  reports |-> Append(r.reports, Percent(100))]

----------------------------------------------------------------------------
(* decodeMessage, from the pixel buffer on.                                 *)

\* the sample tested with the mask 3: 1 when one of its two lowest bits is set
readBit_twoBits(sample) == IF BitAnd(sample, 3) = 0 THEN 0 ELSE 1

\* (data[pixelIndex] & 1).toString()
readBit(sample) == BitAnd(sample, 1)

headerBits == 32

\* the inner loop of the length extraction
RECURSIVE HeaderChannels(_, _, _, _, _)
HeaderChannels(d, i, channel, binaryData, binaryIndex) ==
    IF ~(channel < 3 /\ binaryIndex < headerBits)
    THEN [binaryData |-> binaryData, binaryIndex |-> binaryIndex]
    ELSE LET pixelIndex == i + channel
         IN  IF pixelIndex < Len(d)
             THEN HeaderChannels(d, i, channel + 1,
                                 Append(binaryData, readBit(d[pixelIndex + 1])),
                                 binaryIndex + 1)
             ELSE HeaderChannels(d, i, channel + 1, binaryData, binaryIndex)

\* for (let i = 0; i < data.length && binaryIndex < 32; i += 4)
RECURSIVE HeaderPixels(_, _, _, _)
HeaderPixels(d, i, binaryData, binaryIndex) ==
    IF ~(i < Len(d) /\ binaryIndex < headerBits)
    THEN binaryData
    ELSE LET r == HeaderChannels(d, i, 0, binaryData, binaryIndex)
         IN  HeaderPixels(d, i + 4, r.binaryData, r.binaryIndex)

maxMessageLength == 1000000

\* the validity test off by one at its upper end
InvalidLength_offByOne(messageLength) ==
    NumLeq(messageLength, 0) \/ NumGt(messageLength, maxMessageLength + 1)

\* if (messageLength <= 0 || messageLength > 1000000) return null
InvalidLength(messageLength) ==
    NumLeq(messageLength, 0) \/ NumGt(messageLength, maxMessageLength)

\* the test of the payload loop with > for >=
IsPayloadBit_strict(globalBitIndex, binaryIndex) == globalBitIndex > binaryIndex

\* globalBitIndex >= binaryIndex
IsPayloadBit(globalBitIndex, binaryIndex) == globalBitIndex >= binaryIndex

\* the inner loop of the message extraction; binaryIndex is 32 throughout;
\* reads collects the pixelIndex of every sample read
RECURSIVE PayloadChannels(_, _, _, _, _, _, _)
PayloadChannels(d, i, channel, binaryData, reads, messageBits, binaryIndex) ==
    IF ~(channel < 3 /\ Len(binaryData) < messageBits)
    THEN [binaryData |-> binaryData, reads |-> reads]
    ELSE LET pixelIndex     == i + channel
             globalBitIndex == (pixelIndex \div 4) * 3 + channel
         IN  IF IsPayloadBit(globalBitIndex, binaryIndex) /\ pixelIndex < Len(d)
             THEN PayloadChannels(d, i, channel + 1,
                                  Append(binaryData, readBit(d[pixelIndex + 1])),
                                  Append(reads, pixelIndex),
                                  messageBits, binaryIndex)
             ELSE PayloadChannels(d, i, channel + 1, binaryData, reads,
                                  messageBits, binaryIndex)

\* if (onProgress && i % 12000 === 0) onProgress(progress): the values passed
\* to onProgress by the pass at i, which leaves extracted bits read
DecodeReport(i, extracted, messageBits) ==
    IF i % reportEvery = 0 THEN <<decodeProgress(extracted, messageBits)>> ELSE << >>

\* for (let i = Math.floor(binaryIndex / 3) * 4; i < data.length && extractedBits < messageBits; i += 4):
\* the bits read, the samples they were read from and the values reported
\* when the loop ends; pass is the state a pass leaves
RECURSIVE PayloadPixels(_, _, _, _, _, _, _)
PayloadPixels(d, i, binaryData, reads, reports, messageBits, binaryIndex) ==
    IF ~(i < Len(d) /\ Len(binaryData) < messageBits)
    THEN [binaryData |-> binaryData, reads |-> reads, reports |-> reports]
    ELSE LET r    == PayloadChannels(d, i, 0, binaryData, reads, messageBits, binaryIndex)
             pass == [binaryData |-> r.binaryData,
                      reads      |-> r.reads,
                      reports    |-> reports
                                     \o DecodeReport(i, Len(r.binaryData), messageBits)]
         IN  PayloadPixels(d, i + 4, pass.binaryData, pass.reads, pass.reports,
                           messageBits, binaryIndex)

NotFound == [found |-> FALSE, text |-> << >>]

\* decryption left out
unmask_skip(str, pwd) == str

\* if (password) { key = simpleHash(password); message = message XOR mask }
unmask(str, pwd) ==
    IF pwd # << >> THEN XorWithKey(str, simpleHash(pwd)) ELSE str

\* the decoded string returned whatever its length
messageOrNull_keepEmpty(msg) == [found |-> TRUE, text |-> msg]

\* return message.length > 0 ? message : null
messageOrNull(msg) ==
    IF Len(msg) > 0 THEN [found |-> TRUE, text |-> msg] ELSE NotFound

(* The body of decodeMessage: what it returns, the payload bits it read,   *)
(* the samples it read them from and the progress it reported.             *)
(* extractedBits counts the characters appended to binaryData, so it is    *)
(* Len(binaryData) throughout.  A buffer without a single carrier gives    *)
(* parseInt('', 2) = NaN, which passes both comparisons; messageBits is    *)
(* then NaN, so that extractedBits < messageBits is false and nothing is   *)
(* read.                                                                    *)
decodeMessage(d, pwd) ==
    LET messageLength == parseInt2(HeaderPixels(d, 0, << >>, 0))
    IN  IF InvalidLength(messageLength)
        THEN [result |-> NotFound, extractedBits |-> 0, reads |-> << >>,
              reports |-> << >>]
        ELSE LET binaryIndex == headerBits
                 messageBits == (messageLength.hi * 65536 + messageLength.lo) * 8
                 r           == IF messageLength.nan
                                THEN [binaryData |-> << >>, reads |-> << >>,
                                      reports |-> << >>]
                                ELSE PayloadPixels(d, (binaryIndex \div 3) * 4, << >>,
                                                   << >>, << >>, messageBits, binaryIndex)
                 msg         == unmask(binaryToString(r.binaryData), pwd)
             IN  [result        |-> messageOrNull(msg),
                  extractedBits |-> Len(r.binaryData),
                  reads         |-> r.reads,
                  reports       |-> Append(r.reports, Percent(100))]

----------------------------------------------------------------------------
(* The images that are loaded: every width in 0..MaxWidth, every height of *)
(* Heights, and the sample values of one of Fills.                          *)

\* the header value whose 32 bits a planted fill carries in its first carriers
PlantedLength(fill) ==
    CASE fill = "len1"    -> 1
      [] fill = "len2"    -> 2
      [] fill = "maxlen"  -> 1000000
      [] fill = "overmax" -> 1000001

Ramp(i) == (i * 37 + 11) % 256

\* the sample at 0-based index i
FillSample(fill, i) ==
    CASE fill = "zero" -> 0
      [] fill = "full" -> 255
      [] fill = "ramp" -> Ramp(i)
      [] OTHER ->
           LET k == (i \div 4) * 3 + (i % 4)
           IN  IF i % 4 < 3 /\ k < 32
               THEN (Ramp(i) - (Ramp(i) % 2)) + padStart(toString2(PlantedLength(fill)), 32)[k + 1]
               ELSE Ramp(i)

LoadedImage(w, h, fill) == [i \in 1..(w * h * 4) |-> FillSample(fill, i - 1)]

----------------------------------------------------------------------------
(* The state machine: an image is loaded, its capacity may be shown, a     *)
(* message is encoded into its buffer, and the buffer is decoded.  Every   *)
(* encodeMessage call draws the image file into a canvas of its own, so a  *)
(* loaded buffer sees one encodeMessage; decodeMessage reads what the call *)
(* left (the PNG blob is lossless).                                         *)

\* no call is being followed
NoCall == [call |-> "none", phase |-> "idle", result |-> "none", dataLength |-> 0,
           totalPixels |-> 0, fullBinaryLength |-> 0, nan |-> FALSE,
           messageBits |-> 0, i |-> 0, binaryIndex |-> 0, extractedBits |-> 0]

\* the two dropzones of the page
Zones == {"encode", "decode"}

\* useState(false) in each FileDropzone; useState<File | null>(null) in the page
DropzoneInit ==
    /\ isDragOver = [z \in Zones |-> FALSE]
    /\ file = [z \in Zones |-> << >>]

HashIdle ==
    /\ hashStr = << >>
    /\ hashKey = << >>
    /\ hashMask = << >>

\* no image is loaded
CodecIdle ==
    /\ width = 0
    /\ height = 0
    /\ data = << >>
    /\ before = << >>
    /\ op = "none"
    /\ message = << >>
    /\ password = << >>
    /\ encoded = "none"
    /\ capacity = 0
    /\ decodePassword = << >>
    /\ decoded = NotFound
    /\ extractedBits = 0
    /\ payloadReads = << >>
    /\ written = 0
    /\ encodes = 0

Init ==
    /\ scan = NoCall
    /\ DropzoneInit
    /\ HashIdle
    /\ width \in 0..MaxWidth
    /\ height \in Heights
    /\ \E fill \in Fills : data = LoadedImage(width, height, fill)
    /\ before = data
    /\ reported = << >>
    /\ op = "load"
    /\ message = << >>
    /\ password = << >>
    /\ encoded = "none"
    /\ capacity = 0
    /\ decodePassword = << >>
    /\ decoded = NotFound
    /\ extractedBits = 0
    /\ payloadReads = << >>
    /\ written = 0
    /\ encodes = 0

\* the page shows calculateCapacity(img.width, img.height) for the selected image
CalculateCapacity ==
    /\ op = "load"
    /\ op' = "capacity"
    /\ capacity' = calculateCapacity(width, height)
    /\ UNCHANGED <<width, height, data, before, message, password, encoded,
                   decodePassword, decoded, extractedBits, payloadReads, written,
                   reported, encodes>>
    /\ UNCHANGED <<scan, dropzoneVars, hashVars>>

\* one encodeMessage call on the buffer as it is (r is bound by \E so that the
\* call is evaluated once)
EncodeCall(msg, pwd) ==
    /\ \E r \in {encodeMessage(data, width, height, msg, pwd)} :
           /\ data' = r.data
           /\ encoded' = r.outcome
           /\ written' = r.binaryIndex
           /\ reported' = r.reports
    /\ before' = data
    /\ op' = "encode"
    /\ message' = msg
    /\ password' = pwd
    /\ capacity' = calculateCapacity(width, height)
    /\ encodes' = encodes + 1
    /\ UNCHANGED <<width, height, decodePassword, decoded, extractedBits, payloadReads>>
    /\ UNCHANGED <<scan, dropzoneVars, hashVars>>

\* handleEncode on the selected image
Encode(msg, pwd) ==
    /\ encoded = "none"
    /\ EncodeCall(msg, pwd)

\* handleEncode on the image a successful call produced: the PNG is lossless,
\* so getImageData gives the buffer that call left
Reencode(msg, pwd) ==
    /\ encoded = "ok"
    /\ encodes < MaxEncodes
    /\ EncodeCall(msg, pwd)

Decode(pwd) ==
    /\ \E r \in {decodeMessage(data, pwd)} :
           /\ decoded' = r.result
           /\ extractedBits' = r.extractedBits
           /\ payloadReads' = r.reads
           /\ reported' = r.reports
    /\ op' = "decode"
    /\ decodePassword' = pwd
    /\ UNCHANGED <<width, height, data, before, message, password, encoded, capacity,
                   written, encodes>>
    /\ UNCHANGED <<scan, dropzoneVars, hashVars>>

Next ==
    \/ CalculateCapacity
    \/ \E msg \in Messages, pwd \in Passwords : Encode(msg, pwd)
    \/ \E pwd \in Passwords : Decode(pwd)

Spec == Init /\ [][Next]_vars

\* encodes in a row: each image is encoded into, the result encoded into again,
\* and every result decoded
NextReencode ==
    \/ \E msg \in ReMessages, pwd \in RePasswords : Encode(msg, pwd)
    \/ \E msg \in ReMessages, pwd \in RePasswords : Reencode(msg, pwd)
    \/ \E pwd \in RePasswords : Decode(pwd)

SpecReencode == Init /\ [][NextReencode]_vars

----------------------------------------------------------------------------
(* The pixel loops of encodeMessage and decodeMessage pass by pass, for    *)
(* images large enough that the loops report progress more than once.  The *)
(* loops' control depends on the counters alone (data.length, the length   *)
(* of fullBinary, messageBits), not on the samples, so scan holds the      *)
(* counters; the header value decodeMessage finds is an input.             *)

\* width and height of the images: none, 62x50 (3,100 pixels), 100x65 (6,500 pixels)
ScanImages == {<<0, 0>>, <<62, 50>>, <<100, 65>>}

\* message.length of the encodeMessage calls
ScanLengths == {1, 1150, 2400}

\* the value of the 32 header bits of the decodeMessage calls
ScanHeaders == {0, 1150, 2400, 1000000, 1000001}

InitProgress ==
    /\ CodecIdle
    /\ reported = << >>
    /\ scan = NoCall
    /\ DropzoneInit
    /\ HashIdle

\* the inner loop of lines 103-110 on the counters: binaryIndex after the pass
RECURSIVE WriteChannels(_, _, _, _, _)
WriteChannels(dataLength, fullBinaryLength, i, channel, binaryIndex) ==
    IF ~(IsColorChannel(channel) /\ binaryIndex < fullBinaryLength)
    THEN binaryIndex
    ELSE LET pixelIndex == i + channel
         IN  IF pixelIndex < dataLength
             THEN WriteChannels(dataLength, fullBinaryLength, i, channel + 1,
                                binaryIndex + 1)
             ELSE WriteChannels(dataLength, fullBinaryLength, i, channel + 1,
                                binaryIndex)

\* the inner loop of lines 173-181 on the counters: extractedBits after the pass
RECURSIVE ReadChannels(_, _, _, _, _, _)
ReadChannels(dataLength, i, channel, extracted, messageBits, binaryIndex) ==
    IF ~(channel < 3 /\ extracted < messageBits)
    THEN extracted
    ELSE LET pixelIndex     == i + channel
             globalBitIndex == (pixelIndex \div 4) * 3 + channel
         IN  IF IsPayloadBit(globalBitIndex, binaryIndex) /\ pixelIndex < dataLength
             THEN ReadChannels(dataLength, i, channel + 1, extracted + 1,
                               messageBits, binaryIndex)
             ELSE ReadChannels(dataLength, i, channel + 1, extracted,
                               messageBits, binaryIndex)

\* encodeMessage up to its write loop: the capacity check throws, or the loop begins
StartEncode(w, h, len) ==
    /\ scan.phase = "idle"
    /\ reported' = << >>
    /\ LET messageWithDelimiter == [j \in 1..(len + 4) |-> 0]
       IN  IF ExceedsCapacity(messageWithDelimiter, calculateCapacity(w, h))
           THEN scan' = [NoCall EXCEPT !.call = "encode", !.phase = "done",
                                       !.result = "CapacityExceeded"]
           ELSE scan' = [NoCall EXCEPT !.call = "encode", !.phase = "loop",
                                       !.dataLength = w * h * 4,
                                       !.totalPixels = w * h,
                                       !.fullBinaryLength = 32 + 8 * (len + 4)]
    /\ UNCHANGED <<codecVars, dropzoneVars, hashVars>>

\* one pass of the loop of line 101
WritePixel ==
    /\ scan.call = "encode"
    /\ scan.phase = "loop"
    /\ scan.i < scan.dataLength /\ scan.binaryIndex < scan.fullBinaryLength
    /\ scan' = [scan EXCEPT
                   !.binaryIndex = WriteChannels(scan.dataLength, scan.fullBinaryLength,
                                                 scan.i, 0, scan.binaryIndex),
                   !.i = scan.i + 4]
    /\ reported' = reported \o EncodeReport(scan.i, scan.totalPixels)
    /\ UNCHANGED <<codecVars, dropzoneVars, hashVars>>

\* the loop of line 101 ends; putImageData, and canvas.toBlob is called
WriteLoopExit ==
    /\ scan.call = "encode"
    /\ scan.phase = "loop"
    /\ ~(scan.i < scan.dataLength /\ scan.binaryIndex < scan.fullBinaryLength)
    /\ scan' = [scan EXCEPT !.phase = "blob"]
    /\ UNCHANGED <<codecVars, reported, dropzoneVars, hashVars>>

\* the callback of canvas.toBlob: with a blob onProgress(100) and resolve,
\* with null reject
ToBlob(blob) ==
    /\ scan.phase = "blob"
    /\ scan' = [scan EXCEPT !.phase = "done",
                            !.result = IF blob THEN "ok" ELSE "BlobFailed"]
    /\ reported' = IF blob THEN Append(reported, Percent(100)) ELSE reported
    /\ UNCHANGED <<codecVars, dropzoneVars, hashVars>>

\* decodeMessage up to its payload loop: the header is read (a buffer without
\* carriers gives NaN) and tested
StartDecode(w, h, header) ==
    /\ scan.phase = "idle"
    /\ reported' = << >>
    /\ LET messageLength == IF w * h = 0
                            THEN parseInt2(<< >>)
                            ELSE [nan |-> FALSE, hi |-> header \div 65536,
                                  lo |-> header % 65536]
       IN  IF InvalidLength(messageLength)
           THEN scan' = [NoCall EXCEPT !.call = "decode", !.phase = "done",
                                       !.result = "null"]
           ELSE scan' = [NoCall EXCEPT !.call = "decode", !.phase = "loop",
                                       !.dataLength = w * h * 4,
                                       !.totalPixels = w * h,
                                       !.nan = messageLength.nan,
                                       !.messageBits = header * 8,
                                       !.binaryIndex = headerBits,
                                       !.i = (headerBits \div 3) * 4]
    /\ UNCHANGED <<codecVars, dropzoneVars, hashVars>>

\* the test of the loop of line 172; extractedBits < NaN is false
ReadLoopContinues ==
    /\ ~scan.nan
    /\ scan.i < scan.dataLength
    /\ scan.extractedBits < scan.messageBits

\* one pass of the loop of line 172
ReadPixel ==
    /\ scan.call = "decode"
    /\ scan.phase = "loop"
    /\ ReadLoopContinues
    /\ LET extracted == ReadChannels(scan.dataLength, scan.i, 0, scan.extractedBits,
                                     scan.messageBits, scan.binaryIndex)
       IN  /\ scan' = [scan EXCEPT !.extractedBits = extracted, !.i = scan.i + 4]
           /\ reported' = reported \o DecodeReport(scan.i, extracted, scan.messageBits)
    /\ UNCHANGED <<codecVars, dropzoneVars, hashVars>>

\* the loop of line 172 ends: binaryToString, unmask, onProgress(100), return
ReadLoopExit ==
    /\ scan.call = "decode"
    /\ scan.phase = "loop"
    /\ ~ReadLoopContinues
    /\ scan' = [scan EXCEPT !.phase = "done",
                            !.result = IF scan.extractedBits > 0 THEN "ok" ELSE "null"]
    /\ reported' = Append(reported, Percent(100))
    /\ UNCHANGED <<codecVars, dropzoneVars, hashVars>>

NextProgress ==
    \/ \E wh \in ScanImages, len \in ScanLengths : StartEncode(wh[1], wh[2], len)
    \/ WritePixel
    \/ WriteLoopExit
    \/ \E blob \in BOOLEAN : ToBlob(blob)
    \/ \E wh \in ScanImages, header \in ScanHeaders : StartDecode(wh[1], wh[2], header)
    \/ ReadPixel
    \/ ReadLoopExit

SpecProgress == InitProgress /\ [][NextProgress]_vars

----------------------------------------------------------------------------
(* FileDropzone, as the page uses it twice: accept="image/png,image/jpeg",  *)
(* maxSize={10 * 1024 * 1024}, onFileSelect storing the file in the page   *)
(* state that comes back as the file prop.  A string is the sequence of    *)
(* its characters, so that accept.includes(file.type) is the substring     *)
(* test it is.                                                              *)

\* accept="image/png,image/jpeg"
accept == <<"i", "m", "a", "g", "e", "/", "p", "n", "g", ",",
            "i", "m", "a", "g", "e", "/", "j", "p", "e", "g">>

\* maxSize={10 * 1024 * 1024}
maxSize == 10 * 1024 * 1024

\* file.type: "image/png", "image/jpeg", "image/gif", "application/pdf", and
\* "", which the browser gives a file whose type it does not know
FileTypes ==
    { <<"i", "m", "a", "g", "e", "/", "p", "n", "g">>,
      <<"i", "m", "a", "g", "e", "/", "j", "p", "e", "g">>,
      <<"i", "m", "a", "g", "e", "/", "g", "i", "f">>,
      <<"a", "p", "p", "l", "i", "c", "a", "t", "i", "o", "n", "/", "p", "d", "f">>,
      << >> }

\* file.size
FileSizes == {1024, maxSize, maxSize + 1}

Files == [size : FileSizes, type : FileTypes]

\* e.dataTransfer.files, e.target.files: no file or one
FileLists == {<< >>} \cup {<<f>> : f \in Files}

\* String.prototype.includes
includes(s, searchString) ==
    \E k \in 0..(Len(s) - Len(searchString)) :
        SubSeq(s, k + 1, k + Len(searchString)) = searchString

\* file.size <= maxSize && accept.includes(file.type)
DropAccepts(f) == f.size <= maxSize /\ includes(accept, f.type)

\* file.size <= maxSize
InputAccepts(f) == f.size <= maxSize

\* onFileSelect(file): handleEncodeFileSelect, handleDecodeFileSelect
onFileSelect(z, f) == file' = [file EXCEPT ![z] = <<f>>]

InitDropzone ==
    /\ CodecIdle
    /\ reported = << >>
    /\ scan = NoCall
    /\ DropzoneInit
    /\ HashIdle

\* the drop area is rendered while the file prop is null
handleDrop(z, files) ==
    /\ file[z] = << >>
    /\ isDragOver' = [isDragOver EXCEPT ![z] = FALSE]
    /\ IF Len(files) > 0 /\ DropAccepts(files[1])
       THEN onFileSelect(z, files[1])
       ELSE UNCHANGED file
    /\ UNCHANGED <<codecVars, reported, scan, hashVars>>

handleDragOver(z) ==
    /\ file[z] = << >>
    /\ isDragOver' = [isDragOver EXCEPT ![z] = TRUE]
    /\ UNCHANGED <<codecVars, reported, scan, file, hashVars>>

handleDragLeave(z) ==
    /\ file[z] = << >>
    /\ isDragOver' = [isDragOver EXCEPT ![z] = FALSE]
    /\ UNCHANGED <<codecVars, reported, scan, file, hashVars>>

\* the change event of the input element that a click on the drop area opened
handleFileInput(z, files) ==
    /\ file[z] = << >>
    /\ IF Len(files) > 0 /\ InputAccepts(files[1])
       THEN onFileSelect(z, files[1])
       ELSE UNCHANGED file
    /\ UNCHANGED <<codecVars, reported, scan, isDragOver, hashVars>>

\* the remove button of the preview card: the change event is dispatched on a
\* new input element that nothing listens to, so the file stays
handleRemove(z) ==
    /\ file[z] # << >>
    /\ UNCHANGED vars

NextDropzone ==
    \E z \in Zones :
        \/ \E files \in FileLists : handleDrop(z, files)
        \/ handleDragOver(z)
        \/ handleDragLeave(z)
        \/ \E files \in FileLists : handleFileInput(z, files)
        \/ handleRemove(z)

SpecDropzone == InitDropzone /\ [][NextDropzone]_vars

----------------------------------------------------------------------------
(* simpleHash and the mask bytes on their own: every string of up to       *)
(* MaxHashLen characters of HashAlphabet is hashed, and mask bytes are     *)
(* derived from the key at the positions of MaskIndexes.                   *)

\* 'a', '~' and the two-byte character U+03BB
HashAlphabet == {97, 126, 955}

HashInputs == UNION {[1..n -> HashAlphabet] : n \in 0..MaxHashLen}

\* positions of a character in a message of up to 1,000,000 characters
MaskIndexes == {0, 1, 255, 256, 999999}

InitHash ==
    /\ CodecIdle
    /\ reported = << >>
    /\ scan = NoCall
    /\ DropzoneInit
    /\ hashStr \in HashInputs
    /\ hashKey = << >>
    /\ hashMask = << >>

\* const key = simpleHash(password)
SimpleHash ==
    /\ hashKey = << >>
    /\ hashKey' = <<simpleHash(hashStr)>>
    /\ UNCHANGED <<codecVars, reported, scan, dropzoneVars, hashStr, hashMask>>

\* (key + i) % 256 for the character at position i
Mask(i) ==
    /\ hashKey # << >>
    /\ hashMask' = <<[index |-> i, byte |-> MaskByte(hashKey[1], i)]>>
    /\ UNCHANGED <<codecVars, reported, scan, dropzoneVars, hashStr, hashKey>>

NextHash ==
    \/ SimpleHash
    \/ \E i \in MaskIndexes : Mask(i)

SpecHash == InitHash /\ [][NextHash]_vars

----------------------------------------------------------------------------
(* The wire format, stated on the buffer and not through the codec's loops. *)

\* the number of R, G, B samples of a buffer
Carriers(d) == (Len(d) \div 4) * 3

\* the least-significant bit of carrier k (0-based): channel k % 3 of pixel k \div 3
Lsb(d, k) == d[4 * (k \div 3) + (k % 3) + 1] % 2

\* 2^n
RECURSIVE Pow2(_)
Pow2(n) == IF n = 0 THEN 1 ELSE 2 * Pow2(n - 1)

\* bit k (0 the most significant) of n < 2^31 written as an unsigned 32-bit number
WordBit(n, k) == IF k = 0 THEN 0 ELSE (n \div Pow2(31 - k)) % 2

\* bit j (0 the most significant) of the byte b
ByteBit(b, j) == (b \div Pow2(7 - j)) % 2

\* the value of carriers from..31 read as the low bits of a big-endian number
RECURSIVE LowValue(_, _)
LowValue(d, from) ==
    IF from > 31 THEN 0 ELSE Lsb(d, from) * Pow2(31 - from) + LowValue(d, from + 1)

\* the 32-bit big-endian value of the first 32 carriers is 0
HeaderIsZero(d) == \A k \in 0..31 : Lsb(d, k) = 0

\* the 32-bit big-endian value of the first 32 carriers is > 1,000,000: a bit of
\* weight 2^20 or more is set, or the low 20 bits alone exceed it
HeaderOverMax(d) ==
    \/ \E k \in 0..11 : Lsb(d, k) = 1
    \/ LowValue(d, 12) > 1000000

IsPrintableAscii(str) == \A j \in 1..Len(str) : str[j] \in 32..126

\* the payload byte the frame carries for character j (1-based) of the last message
PayloadByte(j) ==
    IF password = << >> THEN message[j]
    ELSE BitXor(message[j], (simpleHash(password).lo + (j - 1)) % 256)

----------------------------------------------------------------------------
(* Claims.                                                                  *)

\* C1: encoding a printable-ASCII message m without a password into any buffer
\* with width*height*3 >= 64 + 8*len(m) succeeds, and decoding the resulting
\* buffer without a password returns exactly m.  (Stated for the non-empty
\* messages, where it fails already.)
C1_RoundTripNoPassword ==
    (/\ encoded # "none"
     /\ Len(message) >= 1
     /\ password = << >>
     /\ IsPrintableAscii(message)
     /\ width * height * 3 >= 64 + 8 * Len(message))
    => /\ encoded = "ok"
       /\ (op = "decode" /\ decodePassword = << >>)
              => decoded = [found |-> TRUE, text |-> message]

\* C2: encoding a printable-ASCII message m with a non-empty password p into any
\* buffer with width*height*3 >= 64 + 8*len(m) succeeds, and decoding the
\* resulting buffer with the same p returns exactly m.  (Stated for the
\* non-empty messages, where it fails already.)
C2_RoundTripPassword ==
    (/\ encoded # "none"
     /\ Len(message) >= 1
     /\ password # << >>
     /\ IsPrintableAscii(message)
     /\ width * height * 3 >= 64 + 8 * Len(message))
    => /\ encoded = "ok"
       /\ (op = "decode" /\ decodePassword = password)
              => decoded = [found |-> TRUE, text |-> message]

\* a 30-character message and a 10x10 image, whose capacity is 29
ThirtyChars == [j \in 1..30 |-> 65]
TenByTen == LoadedImage(10, 10, "ramp")

\* C3: encode fails with CapacityExceeded whenever the message's character count
\* is greater than capacity(width, height); a 30-character message on a 10x10
\* image (capacity 29) is rejected, with the password the encode was given too.
C3_CapacityRejection ==
    (encoded # "none" /\ Len(message) > calculateCapacity(width, height))
    => /\ encoded = "CapacityExceeded"
       /\ calculateCapacity(10, 10) = 29
       /\ encodeMessage(TenByTen, 10, 10, ThirtyChars, password).outcome = "CapacityExceeded"

\* an image of capacity >= 1 was given a message longer than that
C3_Witness ==
    /\ op = "encode"
    /\ calculateCapacity(width, height) >= 1
    /\ Len(message) > calculateCapacity(width, height)
    /\ encoded = "CapacityExceeded"

\* C4: for capacity(width, height) >= 1, encode of a message whose length is
\* exactly capacity(width, height) succeeds.
C4_CapacityBoundary ==
    (/\ encoded # "none"
     /\ calculateCapacity(width, height) >= 1
     /\ Len(message) = calculateCapacity(width, height))
    => encoded = "ok"

\* C5: whenever encode fails with CapacityExceeded, every sample of the pixel
\* buffer is identical to its value before the call.
C5_AllOrNothing ==
    (encoded # "none" /\ encoded = "CapacityExceeded") => data = before

\* an encode of a non-empty buffer failed
C5_Witness ==
    /\ op = "encode"
    /\ encoded = "CapacityExceeded"
    /\ Len(data) > 0
    /\ Len(message) > 0

\* C6: the alpha sample (index 4k+3) of every pixel has the same value after
\* encode as before.
C6_AlphaPreserved ==
    encoded # "none"
    => \A k \in 0..((Len(before) \div 4) - 1) : data[4 * k + 3 + 1] = before[4 * k + 3 + 1]

\* an encode wrote a frame into a buffer and changed it
C6_Witness ==
    /\ op = "encode"
    /\ encoded = "ok"
    /\ data # before

\* C7: after any encode the buffer has the same length as before and every
\* sample's upper seven bits are unchanged, so each sample differs from its
\* original by at most 1.
C7_OnlyLsbChanges ==
    encoded # "none"
    => /\ Len(data) = Len(before)
       /\ \A i \in 1..Len(before) :
              /\ data[i] \div 2 = before[i] \div 2
              /\ data[i] - before[i] \in {-1, 0, 1}

\* an encode set a sample's least-significant bit and cleared another's
C7_Witness ==
    /\ op = "encode"
    /\ encoded = "ok"
    /\ \E i \in 1..Len(data) : data[i] = before[i] + 1
    /\ \E i \in 1..Len(data) : data[i] = before[i] - 1

\* C8: after a successful encode of a message of L characters the LSB stream
\* over R,G,B holds: bits 0..31 = L, unsigned 32-bit big-endian; bits
\* 32..32+8L-1 = the L payload bytes (masked iff a password was given), each MSB
\* first; bits 32+8L..32+8L+31 = 32 zero bits.
C8_WireFormat ==
    encoded = "ok"
    => LET L == Len(message)
       IN  /\ Carriers(data) >= 64 + 8 * L
           /\ \A k \in 0..31 : Lsb(data, k) = WordBit(L, k)
           /\ \A j \in 1..L : \A b \in 0..7 :
                  Lsb(data, 32 + 8 * (j - 1) + b) = ByteBit(PayloadByte(j), b)
           /\ \A k \in 0..31 : Lsb(data, 32 + 8 * L + k) = 0

\* a masked frame of a non-empty message was written over samples whose bits
\* were all set
C8_Witness ==
    /\ op = "encode"
    /\ encoded = "ok"
    /\ Len(message) >= 1
    /\ password # << >>
    /\ \E j \in 1..Len(message) : PayloadByte(j) # message[j]
    /\ before[1] = 255

\* C9: capacity(width, height) is floor((width*height*3 - 64)/8) when
\* width*height*3 >= 64 and 0 when width*height*3 < 64; it is never negative.
C9_CapacityNeverNegative ==
    op = "capacity"
    => /\ capacity >= 0
       /\ capacity = IF width * height * 3 >= 64
                     THEN (width * height * 3 - 64) \div 8
                     ELSE 0

\* C10: if the 32-bit big-endian value of the first 32 carrier LSBs is <= 0 or
\* > 1,000,000, decode returns NotFound without reading any payload bit; a
\* buffer whose LSBs are all zero decodes to NotFound.
C10_ValidityGate ==
    op = "decode"
    => /\ (Carriers(data) >= 32 /\ (HeaderIsZero(data) \/ HeaderOverMax(data)))
              => (decoded = NotFound /\ extractedBits = 0)
       /\ (\A i \in 1..Len(data) : data[i] % 2 = 0) => decoded = NotFound

\* a buffer with payload carriers whose header reads 1,000,001 was decoded
C10_Witness ==
    /\ op = "decode"
    /\ Carriers(data) > 32
    /\ ~(\E k \in 0..11 : Lsb(data, k) = 1)
    /\ LowValue(data, 12) = 1000001
    /\ decoded = NotFound

\* the mask byte a password puts on the character at 0-based position i
\* (no password: none)
MaskOf(pwd, i) == IF pwd = << >> THEN 0 ELSE (simpleHash(pwd).lo + i) % 256

\* the two passwords mask every character of the last message alike
SameMask(p1, p2) == \A i \in 0..(Len(message) - 1) : MaskOf(p1, i) = MaskOf(p2, i)

\* a carrier of a non-empty message was decoded with another password than it
\* was encoded with
WrongPasswordDecode ==
    /\ op = "decode"
    /\ encoded = "ok"
    /\ Len(message) >= 1
    /\ decodePassword # password

\* C11 as claimed: decode of a carrier of a non-empty message m with any
\* password other than the one it was encoded with returns a message, and that
\* message is different from m.
C11_WrongPasswordDiffers ==
    WrongPasswordDecode => (decoded.found /\ decoded.text # message)

\* C11 as amended: decode with another password never returns NotFound; it
\* returns a string as long as m, which is m itself exactly when the two
\* passwords put the same mask on every character of m.
C11_WrongPasswordGarbage ==
    WrongPasswordDecode
    => /\ decoded.found
       /\ Len(decoded.text) = Len(message)
       /\ (decoded.text = message) <=> SameMask(password, decodePassword)

\* a wrong password whose key agrees modulo 256 gave back m
C11_Witness ==
    /\ WrongPasswordDecode
    /\ password # << >>
    /\ decodePassword # << >>
    /\ decoded.text = message

\* the 0-based sample index of carrier k
SampleIndex(k) == 4 * (k \div 3) + (k % 3)

\* the buffer holds a whole header and its value is in 1..1,000,000
HeaderAccepted(d) ==
    /\ Carriers(d) >= 32
    /\ \A k \in 0..11 : Lsb(d, k) = 0
    /\ LowValue(d, 12) \in 1..1000000

\* C13: decodeMessage returns for every pixel buffer (also one with fewer than
\* 32 carriers, or none) and every password, and what it returns is either
\* NotFound or a string of length > 0: an empty decoded string is NotFound.
C13_DecodeTotal ==
    op = "decode" => \/ decoded = NotFound
                     \/ decoded.found /\ Len(decoded.text) > 0

\* a buffer with fewer than 32 carriers whose short header passed the validity
\* test: nothing was read and the empty string was reported as NotFound
C13_Witness ==
    /\ op = "decode"
    /\ Carriers(data) \in 1..31
    /\ reported # << >>
    /\ extractedBits = 0
    /\ decoded = NotFound

\* C15: for an accepted length L, decodeMessage reads as payload exactly the
\* carriers 32, 33, ... in increasing order, each once, up to 8L bits or the
\* end of the buffer: none below 32, none skipped; the first is sample 42, the
\* third channel of pixel 10.  With no accepted length it reads no payload.
C15_PayloadContinuity ==
    op = "decode"
    => LET avail == Carriers(data) - 32
           want  == 8 * LowValue(data, 12)
           n     == IF HeaderAccepted(data)
                    THEN (IF want < avail THEN want ELSE avail)
                    ELSE 0
       IN  payloadReads = [k \in 1..n |-> SampleIndex(32 + (k - 1))]

\* payload was read, starting at the third channel of pixel 10, and the buffer
\* ended before the declared length was reached
C15_Witness ==
    /\ op = "decode"
    /\ HeaderAccepted(data)
    /\ Len(payloadReads) >= 8
    /\ payloadReads[1] = 4 * 10 + 2
    /\ payloadReads[Len(payloadReads)] = Len(data) - 2

\* the number that the n payload bits from payload bit k on are, the first
\* being the most significant
RECURSIVE PayloadBitsValue(_, _, _)
PayloadBitsValue(d, k, n) ==
    IF n = 0 THEN 0
    ELSE PayloadBitsValue(d, k, n - 1) * 2 + Lsb(d, 32 + k + (n - 1))

\* the last decodeMessage read a number of payload bits that is no multiple of 8
PartialGroupDecode == op = "decode" /\ extractedBits % 8 # 0

\* the characters decoded from the full groups of 8 bits, most significant bit first
FullGroupsDecoded ==
    /\ decoded.found
    /\ Len(decoded.text) = (extractedBits \div 8) + 1
    /\ \A j \in 1..(extractedBits \div 8) :
          decoded.text[j] = BitXor(PayloadBitsValue(data, 8 * (j - 1), 8),
                                   MaskOf(decodePassword, j - 1))

\* C17 as claimed: a trailing group of n < 8 bits is converted to the byte
\* obtained by padding it with 8 - n zero bits on the right (a trailing '1'
\* gives 128).
C17_TrailingGroupPaddedRight ==
    PartialGroupDecode
    => LET full == extractedBits \div 8
           n    == extractedBits % 8
       IN  /\ FullGroupsDecoded
           /\ decoded.text[full + 1]
                = BitXor(PayloadBitsValue(data, 8 * full, n) * Pow2(8 - n),
                         MaskOf(decodePassword, full))

\* C17 as amended: the full groups are converted most significant bit first,
\* and a trailing group of n < 8 bits is converted to the number its n bits
\* are, i.e. as if padded with zeros on the left (a trailing '1' gives 1).
C17_TrailingGroupPaddedLeft ==
    PartialGroupDecode
    => LET full == extractedBits \div 8
           n    == extractedBits % 8
       IN  /\ FullGroupsDecoded
           /\ decoded.text[full + 1]
                = BitXor(PayloadBitsValue(data, 8 * full, n),
                         MaskOf(decodePassword, full))

\* a decode without password that ended in a trailing group with a 1 in it
C17_Witness ==
    /\ PartialGroupDecode
    /\ decodePassword = << >>
    /\ extractedBits > 8
    /\ decoded.text[Len(decoded.text)] > 0

\* the length of the frame of the last message, in bits
FrameBits == 64 + 8 * Len(message)

\* C18: after a successful encodeMessage of L characters every R, G, B sample
\* at carrier position >= 64 + 8L, and every sample of every pixel after the
\* first ceil((64 + 8L) / 3), is what it was before the call.
C18_StopsAtFrameEnd ==
    encoded = "ok"
    => /\ \A k \in FrameBits..(Carriers(data) - 1) :
             data[SampleIndex(k) + 1] = before[SampleIndex(k) + 1]
       /\ \A i \in 1..Len(data) :
             (i - 1) \div 4 >= (FrameBits + 2) \div 3 => data[i] = before[i]

\* a frame that changed the buffer, ended inside a pixel, and was followed by
\* a carrier whose bit was 1
C18_Witness ==
    /\ encoded = "ok"
    /\ data # before
    /\ FrameBits % 3 # 0
    /\ Carriers(data) > FrameBits + 8
    /\ \E k \in FrameBits..(FrameBits + 7) : Lsb(before, k) = 1

\* C19: whenever encodeMessage passes its capacity check, its write loop ends
\* with all 64 + 8L frame bits written: the buffer never ends first.
C19_WholeFrameWritten ==
    encoded = "ok" => written = 64 + 8 * Len(message)

\* an accepted message whose frame left fewer than 64 carriers unused
C19_Witness ==
    /\ encoded = "ok"
    /\ Len(message) >= 1
    /\ written = FrameBits
    /\ Carriers(data) - written < 64

\* C20: after any sequence of successful encodes on the same buffer, decode
\* with the password of the last encode returns exactly the message of the
\* last encode.
C20_LastEncodeWins ==
    (/\ op = "decode"
     /\ encoded = "ok"
     /\ decodePassword = password)
    => decoded = [found |-> TRUE, text |-> message]

\* "A" was written over a three-character message of an earlier encode and
\* was decoded
C20_Witness ==
    /\ op = "decode"
    /\ encodes >= 2
    /\ encoded = "ok"
    /\ HeaderAccepted(before)
    /\ LowValue(before, 12) = 3
    /\ Len(message) = 1
    /\ decodePassword = password
    /\ decoded.text = message

\* a <= b for two progress values (in one call they have the same
\* denominator, or one of them is a whole percentage)
ProgressLeq(a, b) ==
    IF a.den = b.den THEN a.num <= b.num ELSE a.num * b.den <= b.num * a.den

\* C12: within one encodeMessage or decodeMessage call the values passed to
\* onProgress never decrease, every value before the last is at most 95, a
\* call that succeeded reported 100 last, and no 100 is reported while the
\* pixel loop runs or the blob is awaited.
C12_ProgressMonotone ==
    /\ \A j \in 1..(Len(reported) - 1) :
          /\ ProgressLeq(reported[j], reported[j + 1])
          /\ ProgressLeq(reported[j], Percent(95))
    /\ (scan.phase = "done" /\ scan.result = "ok")
       => (reported # << >> /\ reported[Len(reported)] = Percent(100))
    /\ scan.phase \in {"loop", "blob"}
       => \A j \in 1..Len(reported) : ~ProgressLeq(Percent(100), reported[j])

\* an encodeMessage call that reported 0, then a value held at 95 by the limit,
\* then 100
C12_Witness ==
    /\ scan.call = "encode"
    /\ scan.phase = "done"
    /\ scan.result = "ok"
    /\ Len(reported) = 3
    /\ reported[1] = [num |-> 0, den |-> scan.totalPixels]
    /\ reported[2] = Percent(95)

\* the MIME types the page accepts: image/png, image/jpeg
AcceptedTypes ==
    { <<"i", "m", "a", "g", "e", "/", "p", "n", "g">>,
      <<"i", "m", "a", "g", "e", "/", "j", "p", "e", "g">> }

\* C14: every file a FileDropzone hands to onFileSelect, dropped or chosen in
\* the file dialog, has size <= maxSize and the type image/png or image/jpeg.
C14_FileValidation ==
    \A z \in Zones :
        file[z] # << >>
        => /\ file[z][1].size <= maxSize
           /\ file[z][1].type \in AcceptedTypes

\* h * 31 + c on the two halves of the unsigned 32-bit pattern of h, wrapped
\* to 32 bits
TimesThirtyOnePlus(u, c) ==
    LET lo == (u.lo * 31) + c
        hi == (u.hi * 31) + (lo \div 65536)
    IN  [hi |-> hi % 65536, lo |-> lo % 65536]

\* the rolling hash of the first n characters of str, as a 32-bit pattern
RECURSIVE RollingHash(_, _)
RollingHash(str, n) ==
    IF n = 0 THEN [hi |-> 0, lo |-> 0]
    ELSE TimesThirtyOnePlus(RollingHash(str, n - 1), str[n])

\* the pattern stands for a negative signed 32-bit integer
IsNegative(u) == u.hi >= 32768

\* the absolute value of the signed 32-bit integer with pattern u
AbsoluteValue(u) ==
    IF ~IsNegative(u) THEN u
    ELSE IF u.lo = 0 THEN [hi |-> 65536 - u.hi, lo |-> 0]
    ELSE [hi |-> 65535 - u.hi, lo |-> 65536 - u.lo]

\* C16: simpleHash returns the absolute value of the rolling hash
\* h := h * 31 + charCode wrapped to a signed 32-bit integer after every
\* character; the key is non-negative and fits 32 bits, and (key + index)
\* mod 256 is in 0..255 and is the sum of the low bytes modulo 256.
C16_KeyDerivation ==
    /\ hashKey # << >>
       => /\ hashKey[1] = AbsoluteValue(RollingHash(hashStr, Len(hashStr)))
          /\ hashKey[1].hi \in 0..65535
          /\ hashKey[1].lo \in 0..65535
    /\ hashMask # << >>
       => /\ hashMask[1].byte \in 0..255
          /\ hashMask[1].byte
               = ((hashKey[1].lo % 256) + (hashMask[1].index % 256)) % 256

\* the key of a string whose rolling hash is negative, with a mask byte
\* derived from it
C16_Witness ==
    /\ hashKey # << >>
    /\ IsNegative(RollingHash(hashStr, Len(hashStr)))
    /\ hashMask # << >>
    /\ hashMask[1].index > 255

\* the last encodeMessage was given the empty message on an image of capacity >= 4
EmptyMessageEncode ==
    /\ encodes >= 1
    /\ message = << >>
    /\ (width * height * 3 - 64) \div 8 >= 4

\* C24: on every image with capacity(width, height) >= 4, encodeMessage of the
\* empty message succeeds and leaves a header of 0 followed by the 32 zero
\* bits of the terminator, and decodeMessage of that buffer returns NotFound
\* with every password and without one.
C24_EmptyMessageNotRecoverable ==
    EmptyMessageEncode
    => /\ encoded = "ok"
       /\ written = 64
       /\ \A k \in 0..63 : Lsb(data, k) = 0
       /\ op = "decode" => decoded = NotFound

\* the empty message was written over carriers that were not all 0 and the
\* result was decoded with a password
C24_Witness ==
    /\ EmptyMessageEncode
    /\ encoded = "ok"
    /\ data # before
    /\ op = "decode"
    /\ decodePassword # << >>
    /\ decoded = NotFound

\* simpleHash(pwd) modulo 256
KeyMod256(pwd) == simpleHash(pwd).lo % 256

\* the given passwords of the model other than p whose key is congruent to
\* that of p modulo 256
CongruentPasswords(p) ==
    {q \in Passwords \ {<< >>, p} : KeyMod256(q) = KeyMod256(p)}

\* the buffer holds a successful encode of a non-empty message with a password
MaskedCarrier ==
    /\ encoded = "ok"
    /\ message # << >>
    /\ password # << >>

\* C21: for a carrier of a non-empty message m encoded with password p1,
\* decodeMessage with password p2 returns m exactly when simpleHash(p1) and
\* simpleHash(p2) are congruent modulo 256; and encoding the same buffer and
\* message with a different password of congruent key gives the identical
\* buffer, hence the identical decode result under every password.
C21_MaskDependsOnKeyMod256 ==
    MaskedCarrier
    => /\ (op = "decode" /\ decodePassword # << >>)
          => ((decoded = [found |-> TRUE, text |-> message])
              <=> (KeyMod256(password) = KeyMod256(decodePassword)))
       /\ \A p2 \in CongruentPasswords(password) :
            \E r \in {encodeMessage(before, width, height, message, p2)} :
                /\ r.outcome = "ok"
                /\ r.data = data
                /\ op = "decode"
                   => decodeMessage(r.data, decodePassword).result = decoded

\* a carrier written with one password was decoded to m with a different
\* password of congruent key, after a decode with a password of another key
\* would have failed to give m
C21_Witness ==
    /\ MaskedCarrier
    /\ op = "decode"
    /\ decodePassword \in CongruentPasswords(password)
    /\ decoded = [found |-> TRUE, text |-> message]
    /\ \E p3 \in Passwords \ {<< >>} :
          /\ KeyMod256(p3) # KeyMod256(password)
          /\ decodeMessage(data, p3).result.text # message

\* the length a whole header declares
DeclaredLength(d) == LowValue(d, 12)

\* the carriers after the header
PayloadCarriers(d) == Carriers(d) - 32

\* the value of the carriers of a buffer with fewer than 32 of them, the first
\* being the most significant
RECURSIVE ShortHeaderValue(_, _)
ShortHeaderValue(d, n) ==
    IF n = 0 THEN 0 ELSE ShortHeaderValue(d, n - 1) * 2 + Lsb(d, n - 1)

\* the last decodeMessage read a whole header with a length in 1..1,000,000
\* that needs more payload carriers than the buffer has
OverDeclaredDecode ==
    /\ op = "decode"
    /\ HeaderAccepted(data)
    /\ PayloadCarriers(data) < 8 * DeclaredLength(data)

\* the last decodeMessage read a buffer that ends inside the header, and what
\* is there of the header is a number in 1..1,000,000
ShortHeaderDecode ==
    /\ op = "decode"
    /\ Carriers(data) \in 1..31
    /\ ShortHeaderValue(data, Carriers(data)) \in 1..1000000

\* ceil(n / 8)
CeilDiv8(n) == (n + 7) \div 8

\* what decodeMessage does with an over-declaring header, whatever the length
\* of the result is compared with the declared one: every carrier after the
\* header is read once and none outside the buffer, and the result is a string
\* of ceil((width*height*3 - 32) / 8) characters; with no carrier after a
\* short header the result is NotFound
OverDeclaredReads ==
    /\ OverDeclaredDecode
       => /\ extractedBits = PayloadCarriers(data)
          /\ Len(payloadReads) = extractedBits
          /\ \A j \in 1..Len(payloadReads) : payloadReads[j] < Len(data)
          /\ decoded.found
          /\ Len(decoded.text) = CeilDiv8(width * height * 3 - 32)
    /\ ShortHeaderDecode
       => /\ extractedBits = 0
          /\ payloadReads = << >>
          /\ decoded = NotFound

\* C22 as claimed: when the header declares a length L in 1..1,000,000 and the
\* buffer has fewer than 32 + 8L carriers, decodeMessage reads no sample
\* outside the buffer and returns a string of ceil((width*height*3 - 32) / 8)
\* characters, which is shorter than L; it returns NotFound only when there
\* is no payload carrier.
C22_OverDeclaredShorter ==
    /\ OverDeclaredReads
    /\ OverDeclaredDecode => Len(decoded.text) < DeclaredLength(data)

\* C22 as amended: the same reads and the same length of the result, which is
\* at most L: shorter than L when 8 or more of the 8L payload bits are missing,
\* and L characters when only 1..7 are missing (the last character then comes
\* from the short last group).
C22_OverDeclaredAtMost ==
    /\ OverDeclaredReads
    /\ OverDeclaredDecode
       => LET L       == DeclaredLength(data)
              missing == 8 * L - PayloadCarriers(data)
          IN  /\ Len(decoded.text) <= L
              /\ (Len(decoded.text) < L) <=> (missing >= 8)
              /\ (Len(decoded.text) = L) <=> (missing \in 1..7)

\* a header declaring 2 characters over 13 payload carriers was decoded to 2
\* characters
C22_Witness ==
    /\ OverDeclaredDecode
    /\ DeclaredLength(data) = 2
    /\ PayloadCarriers(data) \in 9..15
    /\ Len(decoded.text) = 2

\* the number of leading carriers a decode can depend on: the header, and the
\* 8L payload carriers when the header declares a length L in 1..1,000,000
FramePrefix(d) ==
    IF HeaderAccepted(d) THEN 32 + 8 * DeclaredLength(d) ELSE 32

\* the ways a second buffer of the same dimensions differs from d outside the
\* least-significant bits of the first FramePrefix(d) carriers: in every alpha
\* sample, in the upper seven bits of every R, G, B sample, in the
\* least-significant bit of the 32 carriers after the prefix, of the first
\* carrier after it alone, of every carrier after it, or in all of these
Perturbations == {"alpha", "upper", "terminator", "next", "tail", "all"}

\* the sample at 0-based index s of the second buffer, for a prefix of the
\* given number of carriers
PerturbedSample(d, kind, prefix, s) ==
    LET x      == d[s + 1]
        k      == (s \div 4) * 3 + (s % 4)
        lsb    == IF \/ kind \in {"tail", "all"} /\ k >= prefix
                     \/ kind = "terminator" /\ k >= prefix /\ k < prefix + 32
                     \/ kind = "next" /\ k = prefix
                  THEN 1 - (x % 2) ELSE x % 2
        upper  == IF kind \in {"upper", "all"}
                  THEN 254 - (x - (x % 2)) ELSE x - (x % 2)
    IN  IF s % 4 = 3
        THEN IF kind \in {"alpha", "all"} THEN 255 - x ELSE x
        ELSE upper + lsb

Perturbed(d, kind) ==
    LET prefix == FramePrefix(d)
    IN  [i \in 1..Len(d) |-> PerturbedSample(d, kind, prefix, i - 1)]

\* d with the least-significant bit of carrier k flipped
FlipCarrier(d, k) ==
    [i \in 1..Len(d) |-> IF i = SampleIndex(k) + 1 THEN d[i] + 1 - 2 * (d[i] % 2)
                         ELSE d[i]]

\* C23: two buffers of the same dimensions whose least-significant bits agree
\* on the first 32 + 8L carriers (L the declared length; 32 when no length is
\* accepted) decode to the same result with the same password: alpha samples,
\* the upper seven bits of every sample, the 32 bits of the terminator and
\* every later sample have no influence.
C23_DecodeReadsOnlyPrefix ==
    op = "decode"
    => \A kind \in Perturbations :
          decodeMessage(Perturbed(data, kind), decodePassword).result = decoded

\* the carrier of an encoded message was decoded to that message, the buffer
\* with its terminator bits set decodes to the same, and the result does
\* depend on the last carrier of the prefix
C23_Witness ==
    /\ op = "decode"
    /\ encoded = "ok"
    /\ Len(message) >= 1
    /\ decoded = [found |-> TRUE, text |-> message]
    /\ FramePrefix(data) = 32 + 8 * Len(message)
    /\ \A k \in FramePrefix(data)..(FramePrefix(data) + 31) :
          Lsb(Perturbed(data, "terminator"), k) = 1
    /\ decodeMessage(FlipCarrier(data, FramePrefix(data) - 1), decodePassword).result
         # decoded

====
